---- MODULE Spec2Model ----
(***************************************************************************)
(* Model of lproc/utils.py: the parallel ordered iterator par_iter with    *)
(* its ParIterWorker processes, and the chunked buffer loader chunk_load   *)
(* with its producer thread buffer_loader_worker.                          *)
(*                                                                         *)
(* The two multiprocessing queues are bounded FIFO channels whose put,     *)
(* get, qsize and empty are atomic steps; every interleaving of the main   *)
(* task, the workers and the caller is explored.                           *)
(***************************************************************************)
EXTENDS Integers, Sequences, FiniteSets, TLC

\* ---------------------------------------------------------------------
\* Bounds of the exploration
\* ---------------------------------------------------------------------
MaxN == 3
MaxProcs == 2
MaxChunk == 2
MaxBufLen == 5
MaxItems == 5

\* multiprocessing.cpu_count() of the machine the iteration runs on
CpuCount == 2

\* the sentinel value None, as a queue item and as the idx of an error
None == -1

VARIABLES
  \* ---- par_iter ----
  nprocs,             \* the argument nprocs, then the worker count
  N,                  \* len(sequence)
  failing,            \* indices i for which sequence[i] raises
  picklable,          \* whether (ev, tb) of a failure can be pickled
  q_in, q_out,        \* the two queues
  unordered_results,  \* dict index -> value
  n_injected, n_done,
  mpc,                \* position of the generator body of par_iter
  wpc, wmsg,          \* per worker: position in do(), result being posted
  n_sent,             \* sentinels put so far by the cleanup loop
  n_joined,           \* workers joined so far by the cleanup loop
  yielded,            \* the values the caller received, in order
  raised,             \* the AccessException that left par_iter, or NoError
  dropped,            \* the caller closed the generator at a yield
  \* ---- chunk_load ----
  chunk_size, pad_last,
  buf,                \* the destination buffer (first axis)
  src_len,            \* number of samples the zipped sources produce
  src_raises,         \* next() raises an Exception after src_len samples
  src_picklable,      \* whether that failure can be pickled
  n_read,             \* samples taken from data_iterator so far
  rsem, wsem, end_evt, end_data,
  ppc, w_offset,      \* producer thread: position and its offset
  cpc, offset,        \* consumer generator: position and its offset
  live,               \* buffer positions of the view the caller holds
  views,              \* the views yielded, each read when yielded
  c_raised,           \* whether AccessException left chunk_load, and its cause
  c_dropped,          \* the caller closed the generator at a yield
  put_log             \* every record the producer has put on end_data

parVars == <<nprocs, N, failing, picklable, q_in, q_out, unordered_results,
             n_injected, n_done, mpc, wpc, wmsg, n_sent, n_joined, yielded,
             raised, dropped>>

chunkVars == <<chunk_size, pad_last, buf, src_len, src_raises, src_picklable,
               n_read, rsem, wsem, end_evt, end_data, ppc, w_offset, cpc,
               offset, live, views, c_raised, c_dropped, put_log>>

vars == <<parVars, chunkVars>>

\* =====================================================================
\* par_iter
\* =====================================================================

NoError == [index |-> None, cause |-> FALSE]

\* the element sequence[i] of the source
SourceGet(i) == 10 * (i + 1)

\* nprocs after "if nprocs <= 0: nprocs += multiprocessing.cpu_count()"
EffectiveNprocs(arg) == IF arg <= 0 THEN arg + CpuCount ELSE arg

\* the values of the nprocs argument explored
NprocsArgs == (0 - (CpuCount + 1)) .. MaxProcs

\* multiprocessing.Queue(maxsize): maxsize <= 0 means no limit
HasRoom(q, maxsize) == maxsize <= 0 \/ Len(q) < maxsize

QueueSize == 2 * nprocs

\* proc = [ParIterWorker(...) for _ in range(nprocs)]
Procs == 1 .. nprocs

AllProcs == 1 .. (IF MaxProcs > CpuCount THEN MaxProcs ELSE CpuCount)

\* the messages a worker posts
OkMsg(i, v) == [idx |-> i, v |-> v, ev |-> FALSE]
ErrMsg(i, ev) == [idx |-> None, v |-> i, ev |-> ev]

\* WorkerResult of a do() that posts a value for an access that raised
WorkerResultSwallow(i) == OkMsg(i, SourceGet(i))

\* the result of "try: v = self.sequence[i] ... " for index i
WorkerResult(i) ==
  IF i \in failing THEN ErrMsg(i, picklable) ELSE OkMsg(i, SourceGet(i))

InitParIter ==
  /\ nprocs \in NprocsArgs
  /\ N \in 0 .. MaxN
  /\ failing \in {s \in SUBSET (0 .. N - 1) : Cardinality(s) <= 1}
  /\ picklable \in (IF failing = {} THEN {TRUE} ELSE BOOLEAN)
  /\ q_in = <<>>
  /\ q_out = <<>>
  /\ unordered_results = [k \in {} |-> 0]
  /\ n_injected = 0
  /\ n_done = 0
  /\ mpc = "start"
  /\ wpc = [w \in AllProcs |-> "none"]
  /\ wmsg = [w \in AllProcs |-> OkMsg(0, 0)]
  /\ n_sent = 0
  /\ n_joined = 0
  /\ yielded = <<>>
  /\ raised = NoError
  /\ dropped = FALSE

\* ---- the generator body of par_iter (the main task) ----

\* the first next() of the caller runs the body up to the try: nprocs is
\* adjusted, the queues are created and the nprocs workers are started
ParIterStart ==
  /\ mpc = "start"
  /\ nprocs' = EffectiveNprocs(nprocs)
  /\ wpc' = [w \in AllProcs |-> IF w \in 1 .. nprocs' THEN "idle" ELSE "none"]
  /\ mpc' = "loop"
  /\ UNCHANGED chunkVars
  /\ UNCHANGED <<N, failing, picklable, q_in, q_out, unordered_results,
                 n_injected, n_done, wmsg, n_sent, n_joined, yielded, raised,
                 dropped>>

\* MainLoopTest entering the loop body once more when n_done = len(sequence)
MainLoopTestInclusive ==
  /\ mpc = "loop"
  /\ mpc' = IF n_done <= N THEN "inject" ELSE "drain"
  /\ UNCHANGED chunkVars
  /\ UNCHANGED <<nprocs, N, failing, picklable, q_in, q_out,
                 unordered_results, n_injected, n_done, wpc, wmsg, n_sent,
                 n_joined, yielded, raised, dropped>>

\* "while n_done < len(sequence)": enter the body or leave for the finally
MainLoopTest ==
  /\ mpc = "loop"
  /\ mpc' = IF n_done < N THEN "inject" ELSE "drain"
  /\ UNCHANGED chunkVars
  /\ UNCHANGED <<nprocs, N, failing, picklable, q_in, q_out,
                 unordered_results, n_injected, n_done, wpc, wmsg, n_sent,
                 n_joined, yielded, raised, dropped>>

\* MainInject filling q_in up to its capacity rather than up to nprocs
MainInjectFill ==
  /\ mpc = "inject"
  /\ IF n_injected < N /\ HasRoom(q_in, QueueSize)
       THEN /\ q_in' = Append(q_in, n_injected)
            /\ n_injected' = n_injected + 1
            /\ mpc' = "inject"
       ELSE /\ mpc' = "get"
            /\ UNCHANGED <<q_in, n_injected>>
  /\ UNCHANGED chunkVars
  /\ UNCHANGED <<nprocs, N, failing, picklable, q_out, unordered_results,
                 n_done, wpc, wmsg, n_sent, n_joined, yielded, raised,
                 dropped>>

\* "while n_injected < len(sequence) and q_in.qsize() < nprocs: q_in.put(..)"
\* one turn of the loop, or its exit towards q_out.get()
MainInject ==
  /\ mpc = "inject"
  /\ IF n_injected < N /\ Len(q_in) < nprocs
       THEN /\ HasRoom(q_in, QueueSize)
            /\ q_in' = Append(q_in, n_injected)
            /\ n_injected' = n_injected + 1
            /\ mpc' = "inject"
       ELSE /\ mpc' = "get"
            /\ UNCHANGED <<q_in, n_injected>>
  /\ UNCHANGED chunkVars
  /\ UNCHANGED <<nprocs, N, failing, picklable, q_out, unordered_results,
                 n_done, wpc, wmsg, n_sent, n_joined, yielded, raised,
                 dropped>>

\* "idx, v = q_out.get()" and the test "if idx is None"
MainGet ==
  /\ mpc = "get"
  /\ q_out # <<>>
  /\ q_out' = Tail(q_out)
  /\ LET m == Head(q_out) IN
       IF m.idx = None
         THEN /\ raised' = [index |-> m.v, cause |-> m.ev]
              /\ mpc' = "drain"
              /\ UNCHANGED unordered_results
         ELSE /\ unordered_results' =
                   [k \in DOMAIN unordered_results \cup {m.idx} |->
                      IF k = m.idx THEN m.v ELSE unordered_results[k]]
              /\ mpc' = "deliver"
              /\ UNCHANGED raised
  /\ UNCHANGED chunkVars
  /\ UNCHANGED <<nprocs, N, failing, picklable, q_in, n_injected, n_done,
                 wpc, wmsg, n_sent, n_joined, yielded, dropped>>

\* MainDeliver yielding unordered_results[n_done] without popping it
MainDeliverKeep ==
  /\ mpc = "deliver"
  /\ IF n_done \in DOMAIN unordered_results
       THEN /\ yielded' = Append(yielded, unordered_results[n_done])
            /\ mpc' = "yield"
            /\ UNCHANGED unordered_results
       ELSE /\ mpc' = "loop"
            /\ UNCHANGED <<yielded, unordered_results>>
  /\ UNCHANGED chunkVars
  /\ UNCHANGED <<nprocs, N, failing, picklable, q_in, q_out, n_injected,
                 n_done, wpc, wmsg, n_sent, n_joined, raised, dropped>>

\* MainDeliver yielding the results in the order of their arrival in the
\* dict rather than at key n_done
MainDeliverAnyKey ==
  /\ mpc = "deliver"
  /\ IF DOMAIN unordered_results # {}
       THEN LET k == CHOOSE i \in DOMAIN unordered_results :
                       \A j \in DOMAIN unordered_results : j <= i
            IN  /\ yielded' = Append(yielded, unordered_results[k])
                /\ unordered_results' =
                     [i \in DOMAIN unordered_results \ {k} |->
                        unordered_results[i]]
                /\ mpc' = "yield"
       ELSE /\ mpc' = "loop"
            /\ UNCHANGED <<yielded, unordered_results>>
  /\ UNCHANGED chunkVars
  /\ UNCHANGED <<nprocs, N, failing, picklable, q_in, q_out, n_injected,
                 n_done, wpc, wmsg, n_sent, n_joined, raised, dropped>>

\* "while n_done in unordered_results.keys(): yield unordered_results.pop(..)"
\* the test, and the yield up to the point where the generator is suspended
MainDeliver ==
  /\ mpc = "deliver"
  /\ IF n_done \in DOMAIN unordered_results
       THEN /\ yielded' = Append(yielded, unordered_results[n_done])
            /\ unordered_results' =
                 [k \in DOMAIN unordered_results \ {n_done} |->
                    unordered_results[k]]
            /\ mpc' = "yield"
       ELSE /\ mpc' = "loop"
            /\ UNCHANGED <<yielded, unordered_results>>
  /\ UNCHANGED chunkVars
  /\ UNCHANGED <<nprocs, N, failing, picklable, q_in, q_out, n_injected,
                 n_done, wpc, wmsg, n_sent, n_joined, raised, dropped>>

\* the caller asks for the next value: the generator resumes after the yield
\* with "n_done += 1"
CallerNext ==
  /\ mpc = "yield"
  /\ n_done' = n_done + 1
  /\ mpc' = "deliver"
  /\ UNCHANGED chunkVars
  /\ UNCHANGED <<nprocs, N, failing, picklable, q_in, q_out,
                 unordered_results, n_injected, wpc, wmsg, n_sent, n_joined,
                 yielded, raised, dropped>>

\* the caller drops the iterator: GeneratorExit is raised at the yield and
\* the finally clause runs
CallerDrop ==
  /\ mpc = "yield"
  /\ dropped' = TRUE
  /\ mpc' = "drain"
  /\ UNCHANGED chunkVars
  /\ UNCHANGED <<nprocs, N, failing, picklable, q_in, q_out,
                 unordered_results, n_injected, n_done, wpc, wmsg, n_sent,
                 n_joined, yielded, raised>>

\* CleanupDrain of a finally clause that puts the sentinels without
\* draining q_out first
CleanupDrainSkip ==
  /\ mpc = "drain"
  /\ mpc' = "sentinel"
  /\ UNCHANGED chunkVars
  /\ UNCHANGED <<nprocs, N, failing, picklable, q_in, q_out,
                 unordered_results, n_injected, n_done, wpc, wmsg, n_sent,
                 n_joined, yielded, raised, dropped>>

\* finally: "while not q_out.empty(): q_out.get()", one turn or the exit
CleanupDrain ==
  /\ mpc = "drain"
  /\ IF q_out # <<>>
       THEN /\ q_out' = Tail(q_out)
            /\ mpc' = "drain"
       ELSE /\ mpc' = "sentinel"
            /\ UNCHANGED q_out
  /\ UNCHANGED chunkVars
  /\ UNCHANGED <<nprocs, N, failing, picklable, q_in, unordered_results,
                 n_injected, n_done, wpc, wmsg, n_sent, n_joined, yielded,
                 raised, dropped>>

\* CleanupSentinel putting one sentinel too few
CleanupSentinelShort ==
  /\ mpc = "sentinel"
  /\ IF n_sent < nprocs - 1
       THEN /\ HasRoom(q_in, QueueSize)
            /\ q_in' = Append(q_in, None)
            /\ n_sent' = n_sent + 1
            /\ mpc' = "sentinel"
       ELSE /\ mpc' = "join"
            /\ UNCHANGED <<q_in, n_sent>>
  /\ UNCHANGED chunkVars
  /\ UNCHANGED <<nprocs, N, failing, picklable, q_out, unordered_results,
                 n_injected, n_done, wpc, wmsg, n_joined, yielded, raised,
                 dropped>>

\* finally: "for _ in range(nprocs): q_in.put(None)", one turn or the exit
CleanupSentinel ==
  /\ mpc = "sentinel"
  /\ IF n_sent < nprocs
       THEN /\ HasRoom(q_in, QueueSize)
            /\ q_in' = Append(q_in, None)
            /\ n_sent' = n_sent + 1
            /\ mpc' = "sentinel"
       ELSE /\ mpc' = "join"
            /\ UNCHANGED <<q_in, n_sent>>
  /\ UNCHANGED chunkVars
  /\ UNCHANGED <<nprocs, N, failing, picklable, q_out, unordered_results,
                 n_injected, n_done, wpc, wmsg, n_joined, yielded, raised,
                 dropped>>

\* finally: "for p in proc: p.join()", one turn or the exit; control then
\* returns to the caller (StopIteration, the AccessException or the close)
CleanupJoin ==
  /\ mpc = "join"
  /\ IF n_joined < nprocs
       THEN /\ wpc[n_joined + 1] = "exit"
            /\ n_joined' = n_joined + 1
            /\ mpc' = "join"
       ELSE /\ mpc' = "done"
            /\ UNCHANGED n_joined
  /\ UNCHANGED chunkVars
  /\ UNCHANGED <<nprocs, N, failing, picklable, q_in, q_out,
                 unordered_results, n_injected, n_done, wpc, wmsg, n_sent,
                 yielded, raised, dropped>>

\* ---- ParIterWorker.do ----

\* "i = self.q_in.get()", the sentinel test, and the access sequence[i]
WorkerGet(w) ==
  /\ wpc[w] = "idle"
  /\ q_in # <<>>
  /\ q_in' = Tail(q_in)
  /\ IF Head(q_in) = None
       THEN /\ wpc' = [wpc EXCEPT ![w] = "exit"]
            /\ UNCHANGED wmsg
       ELSE /\ wpc' = [wpc EXCEPT ![w] = "post"]
            /\ wmsg' = [wmsg EXCEPT ![w] = WorkerResult(Head(q_in))]
  /\ UNCHANGED chunkVars
  /\ UNCHANGED <<nprocs, N, failing, picklable, q_out, unordered_results,
                 n_injected, n_done, mpc, n_sent, n_joined, yielded, raised,
                 dropped>>

\* WorkerPut of a do() without its "while True": the worker posts one
\* result and returns
WorkerPutOnce(w) ==
  /\ wpc[w] = "post"
  /\ HasRoom(q_out, QueueSize)
  /\ q_out' = Append(q_out, wmsg[w])
  /\ wpc' = [wpc EXCEPT ![w] = "exit"]
  /\ UNCHANGED chunkVars
  /\ UNCHANGED <<nprocs, N, failing, picklable, q_in, unordered_results,
                 n_injected, n_done, mpc, wmsg, n_sent, n_joined, yielded,
                 raised, dropped>>

\* "self.q_out.put(...)", which blocks while q_out is full
WorkerPut(w) ==
  /\ wpc[w] = "post"
  /\ HasRoom(q_out, QueueSize)
  /\ q_out' = Append(q_out, wmsg[w])
  /\ wpc' = [wpc EXCEPT ![w] = "idle"]
  /\ UNCHANGED chunkVars
  /\ UNCHANGED <<nprocs, N, failing, picklable, q_in, unordered_results,
                 n_injected, n_done, mpc, wmsg, n_sent, n_joined, yielded,
                 raised, dropped>>

NextParIter ==
  \/ ParIterStart
  \/ MainLoopTest
  \/ MainInject
  \/ MainGet
  \/ MainDeliver
  \/ CallerNext
  \/ CallerDrop
  \/ CleanupDrain
  \/ CleanupSentinel
  \/ CleanupJoin
  \/ \E w \in Procs : WorkerGet(w)
  \/ \E w \in Procs : WorkerPut(w)

\* =====================================================================
\* chunk_load and buffer_loader_worker
\* =====================================================================

\* the n-th tuple of samples produced by zip(*sources), n = 0, 1, ...
Sample(n) == n + 1

\* what the caller's buffer holds before the call
Stale == 0 - 1

\* len(b)
BufLen == Cardinality(DOMAIN buf)

\* buffer_size = min([len(b) - len(b) % chunk_size for b in buffers])
buffer_size == BufLen - (BufLen % chunk_size)

\* n_chunks = buffer_size // chunk_size
n_chunks == buffer_size \div chunk_size

\* the positions of the slice b[lo:hi], cut at the end of the buffer
SlicePos(lo, hi) == {p \in DOMAIN buf : lo <= p /\ p < hi}

\* the content of the view b[lo:hi] of buffer b, as a sequence
View(b, lo, hi) ==
  LET n == Cardinality(SlicePos(lo, hi)) IN [k \in 1 .. n |-> b[lo + k - 1]]

\* the records put on end_data
IntRec(r) == [kind |-> "int", val |-> r]
ExcRec == [kind |-> "exception", val |-> 0]
NoneRec == [kind |-> "none", val |-> 0]

NotRaised == [raised |-> FALSE, cause |-> FALSE]

InitChunkLoad ==
  /\ chunk_size \in 1 .. MaxChunk
  /\ pad_last \in BOOLEAN
  /\ \E len \in 0 .. MaxBufLen : buf = [p \in 0 .. len - 1 |-> Stale]
  /\ src_len \in 0 .. MaxItems
  /\ src_raises \in BOOLEAN
  /\ src_picklable \in (IF src_raises THEN BOOLEAN ELSE {TRUE})
  /\ n_read = 0
  /\ rsem = 0
  /\ wsem = n_chunks
  /\ end_evt = FALSE
  /\ end_data = <<>>
  /\ ppc = "start"
  /\ w_offset = 0
  /\ cpc = "acquire"
  /\ offset = 0
  /\ live = {}
  /\ views = <<>>
  /\ c_raised = NotRaised
  /\ c_dropped = FALSE
  /\ put_log = <<>>

\* ---- buffer_loader_worker (the producer thread) ----

\* ProducerStart testing the semaphore without taking the first slot
ProducerStartNoAcquire ==
  /\ ppc = "start"
  /\ ppc' = IF wsem > 0 THEN "test" ELSE "crashed"
  /\ UNCHANGED parVars
  /\ UNCHANGED put_log
  /\ UNCHANGED <<chunk_size, pad_last, buf, src_len, src_raises,
                 src_picklable, n_read, rsem, wsem, end_evt, end_data,
                 w_offset, cpc, offset, live, views, c_raised, c_dropped>>

\* "assert wsem.acquire(blocking=False)": the thread dies when it fails
ProducerStart ==
  /\ ppc = "start"
  /\ IF wsem > 0
       THEN /\ wsem' = wsem - 1
            /\ ppc' = "test"
       ELSE /\ ppc' = "crashed"
            /\ UNCHANGED wsem
  /\ UNCHANGED parVars
  /\ UNCHANGED put_log
  /\ UNCHANGED <<chunk_size, pad_last, buf, src_len, src_raises,
                 src_picklable, n_read, rsem, end_evt, end_data, w_offset,
                 cpc, offset, live, views, c_raised, c_dropped>>

\* "while not end_evt.is_set()"
ProducerTest ==
  /\ ppc = "test"
  /\ ppc' = IF end_evt THEN "final" ELSE "next"
  /\ UNCHANGED parVars
  /\ UNCHANGED put_log
  /\ UNCHANGED <<chunk_size, pad_last, buf, src_len, src_raises,
                 src_picklable, n_read, rsem, wsem, end_evt, end_data,
                 w_offset, cpc, offset, live, views, c_raised, c_dropped>>

\* ProducerNext handling an Exception of next() as the end of the sources
ProducerNextSwallow ==
  /\ ppc = "next"
  /\ IF n_read < src_len
       THEN /\ buf' = [buf EXCEPT ![w_offset] = Sample(n_read)]
            /\ n_read' = n_read + 1
            /\ IF (w_offset + 1) % chunk_size = 0
                 THEN /\ w_offset' = (w_offset + 1) % buffer_size
                      /\ ppc' = "release"
                 ELSE /\ w_offset' = w_offset + 1
                      /\ ppc' = "test"
       ELSE /\ ppc' = "stop_set"
            /\ UNCHANGED <<buf, n_read, w_offset>>
  /\ UNCHANGED parVars
  /\ UNCHANGED put_log
  /\ UNCHANGED <<chunk_size, pad_last, src_len, src_raises, src_picklable,
                 rsem, wsem, end_evt, end_data, cpc, offset, live, views,
                 c_raised, c_dropped>>

\* "samples = next(data_iterator)" and the body of the try: the samples are
\* stored at offset and offset advances, wrapping at a chunk boundary; or
\* next raises StopIteration, or an Exception
ProducerNext ==
  /\ ppc = "next"
  /\ IF n_read < src_len
       THEN /\ buf' = [buf EXCEPT ![w_offset] = Sample(n_read)]
            /\ n_read' = n_read + 1
            /\ IF (w_offset + 1) % chunk_size = 0
                 THEN /\ w_offset' = (w_offset + 1) % buffer_size
                      /\ ppc' = "release"
                 ELSE /\ w_offset' = w_offset + 1
                      /\ ppc' = "test"
       ELSE /\ ppc' = IF src_raises THEN "fail_set" ELSE "stop_set"
            /\ UNCHANGED <<buf, n_read, w_offset>>
  /\ UNCHANGED parVars
  /\ UNCHANGED put_log
  /\ UNCHANGED <<chunk_size, pad_last, src_len, src_raises, src_picklable,
                 rsem, wsem, end_evt, end_data, cpc, offset, live, views,
                 c_raised, c_dropped>>

\* "rsem.release()" after a complete chunk
ProducerRelease ==
  /\ ppc = "release"
  /\ rsem' = rsem + 1
  /\ ppc' = "acquire"
  /\ UNCHANGED parVars
  /\ UNCHANGED put_log
  /\ UNCHANGED <<chunk_size, pad_last, buf, src_len, src_raises,
                 src_picklable, n_read, wsem, end_evt, end_data, w_offset,
                 cpc, offset, live, views, c_raised, c_dropped>>

\* ProducerAcquire with a non-blocking acquire whose result is ignored
ProducerAcquireNoBlock ==
  /\ ppc = "acquire"
  /\ wsem' = IF wsem > 0 THEN wsem - 1 ELSE wsem
  /\ ppc' = "test"
  /\ UNCHANGED parVars
  /\ UNCHANGED put_log
  /\ UNCHANGED <<chunk_size, pad_last, buf, src_len, src_raises,
                 src_picklable, n_read, rsem, end_evt, end_data, w_offset,
                 cpc, offset, live, views, c_raised, c_dropped>>

\* "wsem.acquire()" before the next chunk, blocking
ProducerAcquire ==
  /\ ppc = "acquire"
  /\ wsem > 0
  /\ wsem' = wsem - 1
  /\ ppc' = "test"
  /\ UNCHANGED parVars
  /\ UNCHANGED put_log
  /\ UNCHANGED <<chunk_size, pad_last, buf, src_len, src_raises,
                 src_picklable, n_read, rsem, end_evt, end_data, w_offset,
                 cpc, offset, live, views, c_raised, c_dropped>>

\* "end_evt.set()" of either except clause
ProducerEndSet ==
  /\ ppc \in {"stop_set", "fail_set"}
  /\ end_evt' = TRUE
  /\ ppc' = IF ppc = "stop_set" THEN "stop_put" ELSE "fail_put"
  /\ UNCHANGED parVars
  /\ UNCHANGED put_log
  /\ UNCHANGED <<chunk_size, pad_last, buf, src_len, src_raises,
                 src_picklable, n_read, rsem, wsem, end_data, w_offset, cpc,
                 offset, live, views, c_raised, c_dropped>>

\* except StopIteration: "end_data.put(offset % chunk_size)"
ProducerStopPut ==
  /\ ppc = "stop_put"
  /\ end_data' = Append(end_data, IntRec(w_offset % chunk_size))
  /\ ppc' = "end_release"
  /\ UNCHANGED parVars
  /\ put_log' = Append(put_log, IntRec(w_offset % chunk_size))
  /\ UNCHANGED <<chunk_size, pad_last, buf, src_len, src_raises,
                 src_picklable, n_read, rsem, wsem, end_evt, w_offset, cpc,
                 offset, live, views, c_raised, c_dropped>>

\* except Exception: "end_data.put(ev, tb)" puts the item ev (tb is the
\* block argument of Queue.put); "end_data.put(None)" when pickling fails
ProducerFailPut ==
  /\ ppc = "fail_put"
  /\ end_data' = Append(end_data, IF src_picklable THEN ExcRec ELSE NoneRec)
  /\ ppc' = "end_release"
  /\ UNCHANGED parVars
  /\ put_log' = Append(put_log, IF src_picklable THEN ExcRec ELSE NoneRec)
  /\ UNCHANGED <<chunk_size, pad_last, buf, src_len, src_raises,
                 src_picklable, n_read, rsem, wsem, end_evt, w_offset, cpc,
                 offset, live, views, c_raised, c_dropped>>

\* "rsem.release()" of either except clause
ProducerEndRelease ==
  /\ ppc = "end_release"
  /\ rsem' = rsem + 1
  /\ ppc' = "test"
  /\ UNCHANGED parVars
  /\ UNCHANGED put_log
  /\ UNCHANGED <<chunk_size, pad_last, buf, src_len, src_raises,
                 src_picklable, n_read, wsem, end_evt, end_data, w_offset,
                 cpc, offset, live, views, c_raised, c_dropped>>

\* ProducerFinal of a thread that ends without its last put
ProducerFinalSkip ==
  /\ ppc = "final"
  /\ ppc' = "exit"
  /\ UNCHANGED parVars
  /\ UNCHANGED <<chunk_size, pad_last, buf, src_len, src_raises,
                 src_picklable, n_read, rsem, wsem, end_evt, end_data,
                 w_offset, cpc, offset, live, views, c_raised, c_dropped,
                 put_log>>

\* "end_data.put(None)" after the loop; the thread then ends
ProducerFinal ==
  /\ ppc = "final"
  /\ end_data' = Append(end_data, NoneRec)
  /\ ppc' = "exit"
  /\ UNCHANGED parVars
  /\ put_log' = Append(put_log, NoneRec)
  /\ UNCHANGED <<chunk_size, pad_last, buf, src_len, src_raises,
                 src_picklable, n_read, rsem, wsem, end_evt, w_offset, cpc,
                 offset, live, views, c_raised, c_dropped>>

\* ---- chunk_load (the consumer generator) ----

\* "b[offset + v:] = 0" for the buffer b
PadLast(b, from) == [p \in DOMAIN b |-> IF p >= from THEN 0 ELSE b[p]]

\* "rsem.acquire()", blocking
ConsumerAcquire ==
  /\ cpc = "acquire"
  /\ rsem > 0
  /\ rsem' = rsem - 1
  /\ cpc' = "test"
  /\ UNCHANGED parVars
  /\ UNCHANGED put_log
  /\ UNCHANGED <<chunk_size, pad_last, buf, src_len, src_raises,
                 src_picklable, n_read, wsem, end_evt, end_data, ppc,
                 w_offset, offset, live, views, c_raised, c_dropped>>

\* "if end_evt.is_set()"; in the else branch the view of the chunk at offset
\* is yielded and the generator is suspended
ConsumerTest ==
  /\ cpc = "test"
  /\ IF end_evt
       THEN /\ cpc' = "getend"
            /\ UNCHANGED <<live, views>>
       ELSE /\ views' = Append(views, View(buf, offset, offset + chunk_size))
            /\ live' = SlicePos(offset, offset + chunk_size)
            /\ cpc' = "yield"
  /\ UNCHANGED parVars
  /\ UNCHANGED put_log
  /\ UNCHANGED <<chunk_size, pad_last, buf, src_len, src_raises,
                 src_picklable, n_read, rsem, wsem, end_evt, end_data, ppc,
                 w_offset, offset, c_raised, c_dropped>>

\* "v = end_data.get()", blocking, and the branch on the record: the last
\* chunk is yielded (padded with 0 when pad_last), or the loop is left, or
\* AccessException is raised
ConsumerGetEnd ==
  /\ cpc = "getend"
  /\ end_data # <<>>
  /\ end_data' = Tail(end_data)
  /\ LET v == Head(end_data) IN
       IF v.kind = "int" /\ pad_last
         THEN IF v.val = 0
                THEN /\ cpc' = "fin_set"
                     /\ UNCHANGED <<buf, live, views, c_raised>>
                ELSE /\ buf' = PadLast(buf, offset + v.val)
                     /\ views' = Append(views,
                                   View(buf', offset, offset + chunk_size))
                     /\ live' = SlicePos(offset, offset + chunk_size)
                     /\ cpc' = "yield_last"
                     /\ UNCHANGED c_raised
       ELSE IF v.kind = "int" /\ ~pad_last
         THEN IF v.val = 0
                THEN /\ cpc' = "fin_set"
                     /\ UNCHANGED <<buf, live, views, c_raised>>
                ELSE /\ views' = Append(views,
                                   View(buf, offset, offset + v.val))
                     /\ live' = SlicePos(offset, offset + v.val)
                     /\ cpc' = "yield_last"
                     /\ UNCHANGED <<buf, c_raised>>
       ELSE IF v.kind = "tuple"
         THEN /\ c_raised' = [raised |-> TRUE, cause |-> TRUE]
              /\ cpc' = "fin_set"
              /\ UNCHANGED <<buf, live, views>>
         ELSE /\ c_raised' = [raised |-> TRUE, cause |-> FALSE]
              /\ cpc' = "fin_set"
              /\ UNCHANGED <<buf, live, views>>
  /\ UNCHANGED parVars
  /\ UNCHANGED put_log
  /\ UNCHANGED <<chunk_size, pad_last, src_len, src_raises, src_picklable,
                 n_read, rsem, wsem, end_evt, ppc, w_offset, offset,
                 c_dropped>>

\* the caller asks for the next chunk: after a full chunk the generator
\* resumes with "offset = (offset + chunk_size) % buffer_size" and
\* "wsem.release()"; after the last chunk it resumes with "break"
ChunkNext ==
  /\ cpc \in {"yield", "yield_last"}
  /\ live' = {}
  /\ IF cpc = "yield"
       THEN /\ offset' = (offset + chunk_size) % buffer_size
            /\ wsem' = wsem + 1
            /\ cpc' = "acquire"
       ELSE /\ cpc' = "fin_set"
            /\ UNCHANGED <<offset, wsem>>
  /\ UNCHANGED parVars
  /\ UNCHANGED put_log
  /\ UNCHANGED <<chunk_size, pad_last, buf, src_len, src_raises,
                 src_picklable, n_read, rsem, end_evt, end_data, ppc,
                 w_offset, views, c_raised, c_dropped>>

\* the caller drops the iterator: GeneratorExit is raised at the yield and
\* the finally clause runs
ChunkDrop ==
  /\ cpc \in {"yield", "yield_last"}
  /\ live' = {}
  /\ c_dropped' = TRUE
  /\ cpc' = "fin_set"
  /\ UNCHANGED parVars
  /\ UNCHANGED put_log
  /\ UNCHANGED <<chunk_size, pad_last, buf, src_len, src_raises,
                 src_picklable, n_read, rsem, wsem, end_evt, end_data, ppc,
                 w_offset, offset, views, c_raised>>

\* finally: "end_evt.set()"
FinallySet ==
  /\ cpc = "fin_set"
  /\ end_evt' = TRUE
  /\ cpc' = "fin_release"
  /\ UNCHANGED parVars
  /\ UNCHANGED put_log
  /\ UNCHANGED <<chunk_size, pad_last, buf, src_len, src_raises,
                 src_picklable, n_read, rsem, wsem, end_data, ppc, w_offset,
                 offset, live, views, c_raised, c_dropped>>

\* finally: "wsem.release()"
FinallyRelease ==
  /\ cpc = "fin_release"
  /\ wsem' = wsem + 1
  /\ cpc' = "fin_get"
  /\ UNCHANGED parVars
  /\ UNCHANGED put_log
  /\ UNCHANGED <<chunk_size, pad_last, buf, src_len, src_raises,
                 src_picklable, n_read, rsem, end_evt, end_data, ppc,
                 w_offset, offset, live, views, c_raised, c_dropped>>

\* finally: "end_data.get()", blocking
FinallyGet ==
  /\ cpc = "fin_get"
  /\ end_data # <<>>
  /\ end_data' = Tail(end_data)
  /\ cpc' = "join"
  /\ UNCHANGED parVars
  /\ UNCHANGED put_log
  /\ UNCHANGED <<chunk_size, pad_last, buf, src_len, src_raises,
                 src_picklable, n_read, rsem, wsem, end_evt, ppc, w_offset,
                 offset, live, views, c_raised, c_dropped>>

\* finally: "thread.join()"; control then returns to the caller
FinallyJoin ==
  /\ cpc = "join"
  /\ ppc \in {"exit", "crashed"}
  /\ cpc' = "done"
  /\ UNCHANGED parVars
  /\ UNCHANGED put_log
  /\ UNCHANGED <<chunk_size, pad_last, buf, src_len, src_raises,
                 src_picklable, n_read, rsem, wsem, end_evt, end_data, ppc,
                 w_offset, offset, live, views, c_raised, c_dropped>>

NextChunkLoad ==
  \/ ProducerStart
  \/ ProducerTest
  \/ ProducerNext
  \/ ProducerRelease
  \/ ProducerAcquire
  \/ ProducerEndSet
  \/ ProducerStopPut
  \/ ProducerFailPut
  \/ ProducerEndRelease
  \/ ProducerFinal
  \/ ConsumerAcquire
  \/ ConsumerTest
  \/ ConsumerGetEnd
  \/ ChunkNext
  \/ ChunkDrop
  \/ FinallySet
  \/ FinallyRelease
  \/ FinallyGet
  \/ FinallyJoin

\* =====================================================================
\* The specifications
\* =====================================================================

\* the variables of the operation that is not running
ParIterIdle ==
  /\ nprocs = 0
  /\ N = 0
  /\ failing = {}
  /\ picklable = TRUE
  /\ q_in = <<>>
  /\ q_out = <<>>
  /\ unordered_results = [k \in {} |-> 0]
  /\ n_injected = 0
  /\ n_done = 0
  /\ mpc = "off"
  /\ wpc = [w \in AllProcs |-> "none"]
  /\ wmsg = [w \in AllProcs |-> OkMsg(0, 0)]
  /\ n_sent = 0
  /\ n_joined = 0
  /\ yielded = <<>>
  /\ raised = NoError
  /\ dropped = FALSE

ChunkLoadIdle ==
  /\ chunk_size = 1
  /\ pad_last = FALSE
  /\ buf = [p \in {} |-> Stale]
  /\ src_len = 0
  /\ src_raises = FALSE
  /\ src_picklable = TRUE
  /\ n_read = 0
  /\ rsem = 0
  /\ wsem = 0
  /\ end_evt = FALSE
  /\ end_data = <<>>
  /\ ppc = "off"
  /\ w_offset = 0
  /\ cpc = "off"
  /\ offset = 0
  /\ live = {}
  /\ views = <<>>
  /\ c_raised = NotRaised
  /\ c_dropped = FALSE
  /\ put_log = <<>>

\* a call of par_iter
StartParIter == InitParIter /\ ChunkLoadIdle

SpecParIter == StartParIter /\ [][NextParIter]_vars

\* a call of chunk_load
StartChunkLoad == InitChunkLoad /\ ParIterIdle

SpecChunkLoad == StartChunkLoad /\ [][NextChunkLoad]_vars

\* the main task, every worker process and the caller keep running: a step
\* that stays possible is eventually taken
FairParIter ==
  /\ WF_vars(ParIterStart \/ MainLoopTest \/ MainInject \/ MainGet
               \/ MainDeliver \/ CleanupDrain \/ CleanupSentinel
               \/ CleanupJoin)
  /\ WF_vars(CallerNext \/ CallerDrop)
  /\ \A w \in AllProcs : WF_vars(WorkerGet(w) \/ WorkerPut(w))

FairSpecParIter == SpecParIter /\ FairParIter

\* the producer thread, the consumer and the caller keep running
FairChunkLoad ==
  /\ WF_vars(ProducerStart \/ ProducerTest \/ ProducerNext
               \/ ProducerRelease \/ ProducerAcquire \/ ProducerEndSet
               \/ ProducerStopPut \/ ProducerFailPut \/ ProducerEndRelease
               \/ ProducerFinal)
  /\ WF_vars(ConsumerAcquire \/ ConsumerTest \/ ConsumerGetEnd
               \/ FinallySet \/ FinallyRelease \/ FinallyGet \/ FinallyJoin)
  /\ WF_vars(ChunkNext \/ ChunkDrop)

FairSpecChunkLoad == SpecChunkLoad /\ FairChunkLoad

\* =====================================================================
\* Properties of par_iter
\* =====================================================================

\* every started worker has left do()
AllWorkersExited == \A w \in Procs : wpc[w] = "exit"

\* the values get(0), ..., get(n-1)
SourcePrefix(n) == [j \in 1 .. n |-> SourceGet(j - 1)]

\* C1: with nprocs >= 1 and no failing access, the values yielded are
\* always get(0), get(1), ... in this order, and when the caller has pulled
\* to exhaustion exactly N values were yielded, whatever the order in which
\* the workers posted their results.
C1_OrderPreserved ==
  (mpc # "start" /\ nprocs >= 1 /\ failing = {})
    => /\ Len(yielded) <= N
       /\ yielded = SourcePrefix(Len(yielded))
       /\ (mpc = "done" /\ ~dropped => Len(yielded) = N)

\* a complete iteration by two workers over the longest source
C1_Witness ==
  /\ mpc = "done"
  /\ ~dropped
  /\ failing = {}
  /\ nprocs = 2
  /\ N = MaxN
  /\ yielded = SourcePrefix(N)

C6_CleanupOnEarlyStop ==
  (mpc = "done" /\ dropped /\ Len(yielded) < N /\ nprocs >= 1)
    => /\ AllWorkersExited
       /\ Len(q_in) < QueueSize
       /\ Len(q_out) < QueueSize

\* C9: whatever the nprocs argument, at least one worker is started.
C9_AtLeastOneWorker ==
  mpc # "start" => Cardinality({w \in AllProcs : wpc[w] # "none"}) >= 1

\* C10: when no access raises and the caller pulls to exhaustion, par_iter
\* with nprocs >= 1 terminates: control returns to the caller with
\* n_done = N and with every worker exited.
C10_Terminates ==
  (mpc = "start" /\ EffectiveNprocs(nprocs) >= 1 /\ failing = {})
    => <>(dropped \/ (mpc = "done" /\ n_done = N /\ AllWorkersExited))

\* the iteration over the longest source has returned, all workers exited
C10_Witness ==
  /\ mpc = "done"
  /\ ~dropped
  /\ failing = {}
  /\ N = MaxN
  /\ n_done = N
  /\ nprocs >= 1
  /\ AllWorkersExited

\* =====================================================================
\* Properties of chunk_load
\* =====================================================================

RECURSIVE Concat(_)
\* the concatenation of a sequence of views
Concat(vs) == IF vs = <<>> THEN <<>> ELSE Head(vs) \o Concat(Tail(vs))

\* the zipped source sequence
SourceSeq == [j \in 1 .. src_len |-> Sample(j - 1)]

\* the smallest number of chunks that hold n elements
CeilDiv(n, d) == (n + d - 1) \div d

\* chunk_load has returned after the sources were exhausted and the caller
\* pulled every chunk
Exhausted == cpc = "done" /\ ~src_raises /\ ~c_dropped

\* C2: for sources that do not raise and pad_last = false, the views yielded
\* up to exhaustion, concatenated, are the zipped source sequence in order.
C2_SourceOrder == (Exhausted /\ ~pad_last) => Concat(views) = SourceSeq

\* C3: over src_len items that do not raise, the chunks yielded up to
\* exhaustion hold src_len elements (the next multiple of chunk_size when
\* pad_last and src_len > 0), and src_len / chunk_size chunks when src_len is
\* a multiple of chunk_size.
C3_TotalLength ==
  Exhausted =>
    /\ Len(Concat(views)) =
         IF pad_last THEN CeilDiv(src_len, chunk_size) * chunk_size
                     ELSE src_len
    /\ (src_len % chunk_size = 0 => Len(views) = src_len \div chunk_size)

\* C5: while the caller holds the view of a ring slot, from its yield to
\* the request of the next chunk or the end of the iteration, no position of
\* that view is written.
C5_RingSafety == [][\A p \in live : buf'[p] = buf[p]]_vars

\* the caller holds a view while the producer has filled every other slot of
\* a ring of several slots and waits for a writable one
C5_Witness ==
  /\ live # {}
  /\ cpc = "yield"
  /\ n_chunks >= 2
  /\ ppc = "acquire"
  /\ wsem = 0
  /\ n_read >= 2 * chunk_size

\* C7: when advancing the sources raises and the caller keeps pulling,
\* chunk_load ends by raising AccessException, with the producer thread
\* exited; and no chunk is yielded when the sources raise before the first
\* chunk is complete.
C7_SourceFailure ==
  /\ (cpc = "done" /\ src_raises /\ ~c_dropped)
       => (c_raised.raised /\ ppc = "exit")
  /\ (src_raises /\ src_len < chunk_size) => views = <<>>

\* the sources raised inside the first chunk and the exception reached the
\* caller
C7_Witness ==
  /\ cpc = "done"
  /\ src_raises
  /\ ~c_dropped
  /\ src_len = 1
  /\ chunk_size = 2
  /\ n_read = 1
  /\ c_raised.raised
  /\ views = <<>>
  /\ ppc = "exit"

\* C8: every call of chunk_load returns to its caller: the consumer never
\* blocks forever on rsem.acquire, end_data.get or the join, and the
\* producer has left its thread by then.
C8_CleanupCompletes == <>(cpc = "done" /\ ppc \in {"exit", "crashed"})

\* the same for buffers that hold at least one chunk
C8_CleanupCompletesRing ==
  n_chunks >= 1 => <>(cpc = "done" /\ ppc = "exit")

\* C11: in every state of a run with n_chunks >= 1, start-up, end of stream
\* and cleanup included, the two semaphore counters satisfy
\* rsem + wsem <= n_chunks.
C11_SemaphoreBound == n_chunks >= 1 => rsem + wsem <= n_chunks

\* after the cleanup of a run that filled a ring of several slots, every
\* slot is counted by one of the semaphores
C11_Witness ==
  /\ cpc = "done"
  /\ ppc = "exit"
  /\ n_chunks >= 2
  /\ n_read >= chunk_size
  /\ rsem >= 1
  /\ wsem >= 1
  /\ rsem + wsem = n_chunks

\* the record the producer puts when next() ends the sources or raises
EndRecord ==
  IF ~src_raises THEN IntRec(w_offset % chunk_size)
  ELSE IF src_picklable THEN ExcRec ELSE NoneRec

\* C12 as stated: the producer enqueues exactly one record onto end_data
\* over the whole run.
C12_OneTerminator ==
  /\ Len(put_log) <= 1
  /\ (ppc = "exit" => Len(put_log) = 1)

\* C12 as amended: end_data receives at most two records per run: at most
\* one end-of-stream record, put when the producer itself sees the sources
\* end or raise, and after it the final None that the producer puts when it
\* leaves its loop; both are put when the caller pulls until chunk_load
\* ends by itself.
C12_TerminatorRecords ==
  /\ Len(put_log) <= 2
  /\ (Len(put_log) = 2 => n_read = src_len /\ put_log[1] = EndRecord)
  /\ (ppc = "exit" => put_log # <<>> /\ put_log[Len(put_log)] = NoneRec)
  /\ (ppc # "exit" =>
        Len(put_log) <= 1 /\ (put_log # <<>> => put_log[1] = EndRecord))
  /\ (cpc = "done" /\ ~c_dropped => Len(put_log) = 2)

\* the sources were exhausted with a partial last chunk and chunk_load has
\* returned: the remainder and the final None were put
C12_Witness ==
  /\ cpc = "done"
  /\ ppc = "exit"
  /\ ~c_dropped
  /\ ~src_raises
  /\ src_len % chunk_size # 0
  /\ put_log = <<IntRec(src_len % chunk_size), NoneRec>>

\* C13: the padding step of a last chunk of r > 0 elements with pad_last
\* writes only positions offset + r .. offset + chunk_size - 1; every other
\* position of the buffer keeps its content.
C13_PadFrame ==
  [][(cpc = "getend" /\ pad_last /\ cpc' = "yield_last")
       => \A p \in DOMAIN buf :
            (p < offset + Head(end_data).val \/ p >= offset + chunk_size)
              => buf'[p] = buf[p]]_vars

\* C14: the producer's initial non-blocking acquisition of wsem succeeds for
\* buffers of any length: the assertion never fails, and a producer that has
\* ended has posted a terminator.
C14_StartupAcquire ==
  /\ ppc # "crashed"
  /\ (ppc = "exit" => put_log # <<>>)

\* =====================================================================
\* Further properties of par_iter
\* =====================================================================

\* the number of sentinels waiting in q_in
SentinelsQueued == Cardinality({k \in 1 .. Len(q_in) : q_in[k] = None})

\* the number of indices waiting in q_in
IndicesQueued == Cardinality({k \in 1 .. Len(q_in) : q_in[k] # None})

\* the workers that have left do()
Exited == {w \in Procs : wpc[w] = "exit"}

\* the cleanup steps happen in the order drain, sentinels, joins, and every
\* sentinel put is in q_in or was consumed by exactly one worker that exited
CleanupOrdered ==
  /\ (n_sent > 0 => mpc \in {"sentinel", "join", "done"})
  /\ (n_joined > 0 => mpc \in {"join", "done"})
  /\ (mpc \in {"join", "done"} => n_sent = Cardinality(Procs))
  /\ (mpc # "start" => SentinelsQueued + Cardinality(Exited) = n_sent)
  /\ (mpc = "done" => AllWorkersExited /\ SentinelsQueued = 0)

\* C15: on every exit path the cleanup drains q_out until it is empty, then
\* puts exactly nprocs sentinels, then joins every worker; each worker
\* consumes exactly one sentinel, and the cleanup, once entered, reaches the
\* return to the caller (no worker stays blocked on q_out.put, every join
\* returns).
C15_CleanupOrder ==
  /\ []CleanupOrdered
  /\ [][(mpc = "drain" /\ mpc' = "sentinel") => q_out = <<>>]_vars
  /\ ((mpc = "drain") ~> (mpc = "done"))

\* the caller dropped the iterator of two workers; results were posted after
\* the drain and both workers consumed a sentinel and were joined
C15_Witness ==
  /\ mpc = "done"
  /\ dropped
  /\ nprocs = 2
  /\ n_sent = 2
  /\ n_joined = 2
  /\ q_out # <<>>
  /\ AllWorkersExited

\* C16: the keys of unordered_results are indices dispatched and not yet
\* yielded, i.e. within n_done .. n_injected - 1, and whenever the main task
\* is at q_out.get() the key n_done is not in the buffer.
C16_ReorderBufferKeys ==
  /\ DOMAIN unordered_results \subseteq n_done .. (n_injected - 1)
  /\ (mpc = "get" => n_done \notin DOMAIN unordered_results)

\* the main task waits on q_out.get() after a value was yielded, holding a
\* result that arrived ahead of its turn
C16_Witness ==
  /\ mpc = "get"
  /\ n_done >= 1
  /\ DOMAIN unordered_results # {}
  /\ n_done \notin DOMAIN unordered_results

\* C17: when the source raises and the error information is picklable, the
\* AccessException that leaves chunk_load is chained to that cause; it is
\* raised without cause only when the producer enqueued the opaque record.
C17_FailureChained ==
  c_raised.raised =>
    /\ (src_picklable => c_raised.cause)
    /\ (~c_raised.cause => put_log # <<>> /\ put_log[1] = NoneRec)

\* C18: for a source of length 0, par_iter yields nothing and puts no index
\* on q_in (no worker ever accesses the source), every started worker
\* receives a sentinel and exits, and the call returns.
C18_EmptySource ==
  /\ [](N = 0 => /\ yielded = <<>>
                 /\ n_injected = 0
                 /\ IndicesQueued = 0
                 /\ \A w \in Procs : wpc[w] # "post")
  /\ ((N = 0 /\ mpc = "start")
        ~> (mpc = "done" /\ AllWorkersExited /\ n_sent = Cardinality(Procs)
              /\ raised = NoError))

\* the call on an empty source has returned after two workers were started
\* and each consumed its sentinel
C18_Witness ==
  /\ N = 0
  /\ mpc = "done"
  /\ nprocs = 2
  /\ n_sent = 2
  /\ n_joined = 2
  /\ AllWorkersExited
  /\ yielded = <<>>

\* the workers holding a result they have not posted yet
Posting == {w \in Procs : wpc[w] = "post"}

\* C19: with nprocs >= 1, no put on q_in by the main task can block: q_in
\* never holds more than nprocs indices, an index or a sentinel is put only
\* when q_in has room within its 2*nprocs capacity, and after the drain the
\* results still to be posted (queued indices and in-progress ones) fit
\* within q_out's 2*nprocs capacity together with what q_out holds.
C19_PutsNeverBlock ==
  (mpc # "start" /\ nprocs >= 1) =>
    /\ IndicesQueued <= nprocs
    /\ Len(q_in) <= QueueSize
    /\ (mpc = "inject" /\ n_injected < N /\ Len(q_in) < nprocs
          => Len(q_in) < QueueSize)
    /\ (mpc = "sentinel" /\ n_sent < nprocs => Len(q_in) < QueueSize)
    /\ (mpc \in {"sentinel", "join", "done"}
          => Len(q_out) + Cardinality(Posting) + IndicesQueued <= QueueSize)

\* the last sentinel was put while q_in still held nprocs indices: q_in is
\* filled to its capacity and the put did not block
C19_Witness ==
  /\ mpc = "join"
  /\ nprocs >= 1
  /\ n_sent = nprocs
  /\ IndicesQueued = nprocs
  /\ Len(q_in) = QueueSize

\* the indices waiting in q_in, in queue order
QueuedIndices == SelectSeq(q_in, LAMBDA x : x # None)

\* C20: each index is dispatched at most once and in increasing order
\* (0 <= n_done <= n_injected <= N; the indices in q_in increase and were
\* dispatched; the indices in flight never outnumber the dispatched ones not
\* yet yielded), and the values yielded are get(0), ..., get(m-1) in this
\* order with m <= k for every failing index k.
C20_DispatchOnceInOrder ==
  /\ 0 <= n_done
  /\ n_done <= n_injected
  /\ n_injected <= N
  /\ \A a, b \in 1 .. Len(QueuedIndices) :
       a < b => QueuedIndices[a] < QueuedIndices[b]
  /\ \A a \in 1 .. Len(QueuedIndices) :
       n_done <= QueuedIndices[a] /\ QueuedIndices[a] < n_injected
  /\ Len(QueuedIndices) + Cardinality(Posting) + Len(q_out)
       + Cardinality(DOMAIN unordered_results) + n_done <= n_injected
  /\ Len(yielded) <= n_done + 1
  /\ yielded = SourcePrefix(Len(yielded))
  /\ \A k \in failing : Len(yielded) <= k

\* access 2 was the failing one and its AccessException reached the caller
\* after a single value had been yielded
C20_Witness ==
  /\ mpc = "done"
  /\ ~dropped
  /\ failing = {2}
  /\ raised # NoError
  /\ yielded = SourcePrefix(1)
  /\ n_injected = 3

====
